---- MODULE Spec2Model ----
(***************************************************************************)
(* A model of the yar.go client engine (src/client/client.go): the call    *)
(* lifecycle Call -> httpHandler -> initRequest -> packRequest -> dispatch *)
(* -> readResponse, with the fixed-width wire header, the length check of  *)
(* the reply, the two-stage decode of the return value and the mapping of  *)
(* every failure onto an error kind.                                       *)
(*                                                                         *)
(* Bytes are naturals 0..255 and byte strings are sequences of bytes.      *)
(* A uint32 is a pair <<hi, lo>> of 16-bit halves, so that the unsigned    *)
(* 32-bit arithmetic of readResponse keeps its width.                      *)
(***************************************************************************)
EXTENDS Integers, Sequences, FiniteSets, TLC

\* ------------------------------------------------------------------ bounds

\* Longest excess of a configured provider/credential string over its field.
MaxExtra == 1

\* ------------------------------------------------- constants of package yar

\* Width of the codec-name field of the header.
PackagerLength == 8

\* Width of the header without the codec-name field: tag 4, id 4,
\* provider 28, credential 32, body length 4.
ProtocolLength == 72

\* Widths passed to StrToFixedBytes by initRequest.
ProviderWidth == 28

TokenWidth == 32

\* yar.ERR_OKEY, the status of a successful response.
ERR_OKEY == 0

HeaderWidth == ProtocolLength + PackagerLength

\* ------------------------------------------------------------------ uint32

Half == 256 * 256

\* uint32(n) for a non-negative int n below 2^31.
U32(n) == <<(n \div Half) % Half, n % Half>>

\* a - b in unsigned 32-bit arithmetic (wraps below zero).
Sub32(a, b) ==
    LET lo     == a[2] - b[2]
        borrow == IF lo < 0 THEN 1 ELSE 0
        hi     == a[1] - b[1] - borrow
    IN  <<(hi + 2 * Half) % Half, (lo + Half) % Half>>

\* a < b on uint32.
Less32(a, b) == a[1] < b[1] \/ (a[1] = b[1] /\ a[2] < b[2])

\* The four bytes of a uint32, most significant first, and back.
BE32(u) == <<u[1] \div 256, u[1] % 256, u[2] \div 256, u[2] % 256>>

FromBE32(b) == <<b[1] * 256 + b[2], b[3] * 256 + b[4]>>

\* ------------------------------------------------------------ byte strings

Take(s, n) == SubSeq(s, 1, n)

Drop(s, n) == SubSeq(s, n + 1, Len(s))

Last(s) == s[Len(s)]

Has(s, x) == \E i \in 1..Len(s) : s[i] = x

\* A string of n characters (bytes 97, 98, 99, 97, ...).
Str(n) == [i \in 1..n |-> 97 + (i % 3)]

Zeros(n) == [i \in 1..n |-> 0]

\* ------------------------------------------------- fixed-width header fields

\* yar.StrToFixedBytes: the bytes of str in a field of exactly n bytes, a
\* short string padded with zero bytes, a long one cut to its prefix.
StrToFixedBytes(str, n) ==
    IF Len(str) >= n THEN Take(str, n) ELSE str \o Zeros(n - Len(str))

\* Lengths of the arrays Header.Provider and Header.Token.
HeaderProviderLen == 28

HeaderTokenLen == 32

\* yar.NewHeader: a header with every field zero.
NewHeader ==
    [MagicNumber |-> U32(0), Id |-> U32(0), Provider |-> Zeros(HeaderProviderLen),
     Token |-> Zeros(HeaderTokenLen), Packager |-> Zeros(PackagerLength),
     BodyLength |-> U32(0)]

\* Header.Bytes: the fields in wire order, integers most significant byte first.
HeaderBytes(h) ==
    BE32(h.MagicNumber) \o BE32(h.Id) \o h.Provider \o h.Token \o h.Packager
        \o BE32(h.BodyLength)

\* Header.Init: the header read back from HeaderWidth bytes.
HeaderInit(b) ==
    [MagicNumber |-> FromBE32(SubSeq(b, 1, 4)),
     Id          |-> FromBE32(SubSeq(b, 5, 8)),
     Provider    |-> SubSeq(b, 9, 8 + HeaderProviderLen),
     Token       |-> SubSeq(b, 9 + HeaderProviderLen, 8 + HeaderProviderLen + HeaderTokenLen),
     Packager    |-> SubSeq(b, 9 + HeaderProviderLen + HeaderTokenLen,
                            8 + HeaderProviderLen + HeaderTokenLen + PackagerLength),
     BodyLength  |-> FromBE32(SubSeq(b, HeaderWidth - 3, HeaderWidth))]

\* yar.NewRequest: a fresh request with correlation id `id`, no method, no
\* params and a zero header.
NewRequest(id) ==
    [Id |-> U32(id), Method |-> <<>>, Params |-> <<>>, Protocol |-> NewHeader]

\* ------------------------------------------------------------- the codecs

\* Codec names, as byte strings: "json", an eight-byte name, a nine-byte
\* name whose eight-byte prefix is the registered eight-byte name, and a
\* name no codec is registered under.
JSON == <<106, 115, 111, 110>>

PACK8 == <<109, 115, 103, 112, 97, 99, 107, 50>>

LONG9 == PACK8 \o <<120>>

NOCODEC == <<120, 109, 108>>

\* The codec registry: the names a codec is registered under.
Registered(name) == name \in {JSON, PACK8}

\* The first byte of everything a codec writes.
Marker(name) == IF name = JSON THEN 123 ELSE 131

\* A value no codec can encode (in Go: a func or a channel among the params).
Unencodable == 255

\* An element a decoder cannot store in an int field (in Go: a string).
IsIntElem(e) == e < 200

\* packager.Pack of a request: the marker, the correlation id, the method
\* and the params, each sequence preceded by its length.
PackRequestBytes(name, r) ==
    <<Marker(name), r.Id[2] % 256, Len(r.Method)>> \o r.Method
        \o <<Len(r.Params)>> \o r.Params

\* packager.Pack of a generically decoded value (a sequence of elements).
PackValueBytes(name, v) == <<Marker(name), Len(v)>> \o v

\* packager.Pack(name, v): v is a request or a generic value. `fail` is the
\* codec reporting an error of its own.
Pack(name, v, fail) ==
    IF ~Registered(name) \/ fail THEN [ok |-> FALSE, bytes |-> <<>>]
    ELSE IF v.kind = "request"
    THEN IF \E i \in 1..Len(v.r.Params) : v.r.Params[i] = Unencodable
         THEN [ok |-> FALSE, bytes |-> <<>>]
         ELSE [ok |-> TRUE, bytes |-> PackRequestBytes(name, v.r)]
    ELSE [ok |-> TRUE, bytes |-> PackValueBytes(name, v.v)]

\* The messages a peer reports, by the byte that encodes them.
Message(code) == IF code = 1 THEN "boom" ELSE IF code = 2 THEN "denied" ELSE ""

NoResponse == [Id |-> 0, Status |-> 0, Error |-> "", Retval |-> <<>>]

\* packager.Unpack of a response envelope: marker, id, status, message
\* code, then the return value as a length and that many elements. Bytes
\* before or after a well-formed envelope make the decode fail.
UnpackResponse(name, b) ==
    IF /\ Registered(name)
       /\ Len(b) >= 5
       /\ b[1] = Marker(name)
       /\ Len(b) = 5 + b[5]
    THEN [ok |-> TRUE,
          resp |-> [Id |-> b[2], Status |-> b[3], Error |-> Message(b[4]),
                    Retval |-> Drop(b, 5)]]
    ELSE [ok |-> FALSE, resp |-> NoResponse]

\* The shape of the caller's result target: a struct of two int fields.
TargetFields == 2

\* What a decode into the target stores: every element that fits its field.
StoreFitting(elems, target) ==
    [i \in 1..TargetFields |->
        IF i <= Len(elems) /\ IsIntElem(elems[i]) THEN elems[i] ELSE target[i]]

\* packager.Unpack of an encoded value into the caller's target. The decode
\* succeeds when the value has the target's shape. When it fails the codec
\* either has left the target alone or (`partial`) has stored the elements
\* that fit before reporting the one that does not.
UnpackInto(name, b, target, partial) ==
    IF ~Registered(name) \/ Len(b) < 2 \/ b[1] # Marker(name) \/ Len(b) # 2 + b[2]
    THEN [ok |-> FALSE, target |-> target]
    ELSE LET elems == Drop(b, 2)
             fits  == /\ Len(elems) = TargetFields
                      /\ \A i \in 1..Len(elems) : IsIntElem(elems[i])
         IN  IF fits THEN [ok |-> TRUE, target |-> StoreFitting(elems, target)]
             ELSE IF partial /\ Len(elems) = TargetFields
             THEN [ok |-> FALSE, target |-> StoreFitting(elems, target)]
             ELSE [ok |-> FALSE, target |-> target]

\* ------------------------------------------------------------------- gzip

\* gzip of b: the two magic bytes, the payload, a one-byte length check.
Gzip(b) == <<31, 139>> \o b \o <<Len(b) % 256>>

\* Response.BodyGunzip: the payload, or a failure for bytes that are no gzip.
Gunzip(b) ==
    IF Len(b) >= 3 /\ b[1] = 31 /\ b[2] = 139 /\ b[Len(b)] = (Len(b) - 3) % 256
    THEN [ok |-> TRUE, bytes |-> SubSeq(b, 3, Len(b) - 1)]
    ELSE [ok |-> FALSE, bytes |-> <<>>]

\* ----------------------------------------------------------------- errors

\* yar.NewError(kind, msg); NoError is the nil *yar.Error.
NewError(kind, msg) == [kind |-> kind, msg |-> msg]

NoError == [kind |-> "nil", msg |-> ""]

\* The outcome of a run-time panic (an index out of range), which is no
\* *yar.Error at all.
Panicked == [kind |-> "panic", msg |-> "index out of range"]

ErrorKinds == {"Param", "Config", "Packager", "Network", "Response"}

\* --------------------------------------------------------------- requests

NoRequest == NewRequest(0)

\* A variant that asks for one byte less than the provider field holds.
providerBytes_Short(client) == StrToFixedBytes(client.Opt.Provider, ProviderWidth - 1)

\* The provider and the credential as initRequest asks for them.
providerBytes(client) == StrToFixedBytes(client.Opt.Provider, ProviderWidth)

tokenBytes(client) == StrToFixedBytes(client.Opt.ServiceName, TokenWidth)

\* A variant without the test for a missing method name.
emptyMethod_Never(method) == FALSE

\* The test of initRequest for a missing method name.
emptyMethod(method) == Len(method) < 1

\* Client.initRequest. The header's provider and credential are copied
\* before the method is looked at; the copy loops run over the header's
\* arrays and index the StrToFixedBytes result, so a result shorter than
\* the array is an index out of range.
initRequest(client, method, params, id) ==
    LET r0 == NewRequest(id)
        bs == providerBytes(client)
        cs == tokenBytes(client)
    IN  IF Len(bs) < HeaderProviderLen \/ Len(cs) < HeaderTokenLen
        THEN [err |-> Panicked, r |-> NoRequest]
        ELSE IF emptyMethod(method)
        THEN [err |-> NewError("Param", "call empty method"), r |-> NoRequest]
        ELSE [err |-> NoError,
              r   |-> [Id     |-> r0.Id,
                       Method |-> method,
                       Params |-> IF params.isNil THEN <<>> ELSE params.elems,
                       Protocol |->
                           [r0.Protocol EXCEPT
                               !.Provider = [i \in 1..HeaderProviderLen |-> bs[i]],
                               !.Token = [i \in 1..HeaderTokenLen |-> cs[i]],
                               !.MagicNumber = client.Opt.MagicNumber,
                               !.Id = r0.Id]]]

\* The codec name packRequest encodes with: the configured name cut to at
\* most PackagerLength bytes.
sendPackager(client) ==
    IF Len(client.Opt.Packager) < PackagerLength
    THEN client.Opt.Packager
    ELSE Take(client.Opt.Packager, PackagerLength)

\* A variant that stores the truncated codec name back into the Options.
optAfterPack_Truncating(client) ==
    [client.Opt EXCEPT !.Packager = sendPackager(client)]

\* The Options after packRequest: the codec name is copied into a local
\* before it is cut, the Options are only read.
optAfterPack(client) == client.Opt

\* Client.packRequest: writes the codec name into the header and encodes
\* the request with the codec of that name.
packRequest(client, r) ==
    LET name == sendPackager(client)
        p    == name \o Zeros(PackagerLength - Len(name))
        r1   == [r EXCEPT !.Protocol.Packager = p]
        pk   == Pack(name, [kind |-> "request", r |-> r1], FALSE)
    IN  IF ~pk.ok
        THEN [err |-> NewError("Packager", "pack error"), r |-> r1, pack |-> <<>>]
        ELSE [err |-> NoError, r |-> r1, pack |-> pk.bytes]

\* A variant that leaves the codec-name width out of the body length.
bodyLengthField_NoWidth(packBody) == U32(Len(packBody))

\* The body length httpHandler writes into the header.
bodyLengthField(packBody) == U32(Len(packBody) + PackagerLength)

\* The process-wide handle a call uses.
handleOf(client) == IF client.Opt.DNSCache THEN "dnsCacheHttpClient" ELSE "httpClient"

\* A variant of the timeout write that sets the timeout of every handle.
setReadTimeout_Both(hs, client) == [h \in DOMAIN hs |-> client.Opt.Timeout]

\* hClient.ReadTimeout = client.Opt.Timeout: the write goes to the
\* process-wide handle the client selects, not to a copy of it.
setReadTimeout(hs, client) ==
    [hs EXCEPT ![handleOf(client)] = client.Opt.Timeout]

NoSent ==
    [body |-> <<>>, contentGzip |-> FALSE, acceptGzip |-> FALSE, handle |-> "none",
     timeout |-> 0]

\* Client.httpHandler up to the dispatch: the request is built and encoded,
\* the body length is written into the header, the header bytes and the
\* body are joined, the handle's read timeout is set and the payload is
\* compressed when Opt.RequestGzip asks for it. `env` holds what the
\* compressor answers.
httpHandlerSend(client, method, params, id, env) ==
    LET ir == initRequest(client, method, params, id)
        pr == packRequest(client, ir.r)
        r2 == [pr.r EXCEPT
                  !.Protocol.BodyLength = bodyLengthField(pr.pack)]
        postBuffer == HeaderBytes(r2.Protocol) \o pr.pack
        base == [err |-> NoError, r |-> NoRequest, packBody |-> <<>>,
                 postBuffer |-> <<>>, setTimeout |-> FALSE, sent |-> NoSent,
                 trace |-> <<>>]
    IN  IF ir.err # NoError
        THEN [base EXCEPT !.err = ir.err, !.trace = <<"initRequest">>]
        ELSE IF pr.err # NoError
        THEN [base EXCEPT !.err = pr.err, !.r = pr.r,
                          !.trace = <<"initRequest", "packRequest">>]
        ELSE IF client.Opt.RequestGzip /\ env.gzipFail
        THEN [base EXCEPT !.err = NewError("Network", "gzip error"), !.r = r2,
                          !.packBody = pr.pack, !.postBuffer = postBuffer,
                          !.setTimeout = TRUE,
                          !.trace = <<"initRequest", "packRequest", "setTimeout", "gzip">>]
        ELSE [base EXCEPT !.r = r2, !.packBody = pr.pack, !.postBuffer = postBuffer,
                          !.setTimeout = TRUE,
                          !.sent = [body |-> IF client.Opt.RequestGzip
                                             THEN Gzip(postBuffer) ELSE postBuffer,
                                    contentGzip |-> client.Opt.RequestGzip,
                                    acceptGzip |-> client.Opt.AcceptGzip,
                                    handle |-> handleOf(client),
                                    timeout |-> client.Opt.Timeout],
                          !.trace = IF client.Opt.RequestGzip
                                    THEN <<"initRequest", "packRequest", "setTimeout",
                                           "gzip", "dispatch">>
                                    ELSE <<"initRequest", "packRequest", "setTimeout",
                                           "dispatch">>]

\* -------------------------------------------------------------- responses

\* The length check with the header's width left in the count of the bytes
\* present.
bodyTooShort_WholeReply(allBody) ==
    LET protocol   == HeaderInit(Take(allBody, HeaderWidth))
        bodyLength == Sub32(protocol.BodyLength, U32(PackagerLength))
    IN  Less32(U32(Len(allBody)), bodyLength)

\* A variant of the length check in signed arithmetic: a claimed body
\* length below PackagerLength gives a negative count, which no reply is
\* short of.
bodyTooShort_Signed(allBody) ==
    LET protocol   == HeaderInit(Take(allBody, HeaderWidth))
        bodyLength == Sub32(protocol.BodyLength, U32(PackagerLength))
    IN  /\ ~Less32(protocol.BodyLength, U32(PackagerLength))
        /\ Less32(U32(Len(allBody) - HeaderWidth), bodyLength)

\* The length check of readResponse, in unsigned 32-bit arithmetic: the
\* bytes after the header are fewer than header.BodyLength - PackagerLength.
bodyTooShort(allBody) ==
    LET protocol   == HeaderInit(Take(allBody, HeaderWidth))
        bodyLength == Sub32(protocol.BodyLength, U32(PackagerLength))
    IN  Less32(U32(Len(allBody) - HeaderWidth), bodyLength)

\* A variant without the test of the response's status.
responseFailed_Never(response) == FALSE

\* The test of readResponse for a peer-reported failure.
responseFailed(response) == response.Status # ERR_OKEY

\* The codec name readResponse hands to the codec, for the envelope and
\* for both stages of the decode into the target: the configured name.
recvPackager(client) == client.Opt.Packager

\* A variant that encodes the response's status along with its return value.
repackRetval_Whole(client, response, fail) ==
    Pack(recvPackager(client),
         [kind |-> "value", v |-> <<response.Status>> \o response.Retval], fail)

\* The first stage of the decode into the target: the generically decoded
\* return value, encoded again.
repackRetval(client, response, fail) ==
    Pack(recvPackager(client), [kind |-> "value", v |-> response.Retval], fail)

\* The bytes readResponse hands to the codec as the envelope: all the
\* bytes after the header.
bodyBuffer(allBody) == Drop(allBody, HeaderWidth)

\* The codec names readResponse used, by the stages it ran.
codecNamesOf(client, tr) ==
    (IF Has(tr, "unpackResponse") THEN <<recvPackager(client)>> ELSE <<>>)
    \o (IF Has(tr, "repack") THEN <<recvPackager(client)>> ELSE <<>>)
    \o (IF Has(tr, "unpackInto") THEN <<recvPackager(client)>> ELSE <<>>)

\* Client.readResponse on the reply bytes allBody (read from an in-memory
\* buffer, so the read itself cannot fail). `ret` says whether the caller
\* passed a result target, `target` is what the target holds.
readResponse(client, allBody, ret, target, env) ==
    LET u  == UnpackResponse(recvPackager(client), bodyBuffer(allBody))
        pk == repackRetval(client, u.resp, env.repackFail)
        d  == UnpackInto(recvPackager(client), pk.bytes, target, env.partial)
    IN  IF Len(allBody) < HeaderWidth
        THEN [err |-> NewError("Response", "Response Parse Error"),
              target |-> target, trace |-> <<"readResponse">>]
        ELSE IF bodyTooShort(allBody)
        THEN [err |-> NewError("Response", "Response Content Error"),
              target |-> target, trace |-> <<"readResponse", "parseHeader">>]
        ELSE IF ~u.ok
        THEN [err |-> NewError("Packager", "Unpack Error"),
              target |-> target,
              trace |-> <<"readResponse", "parseHeader", "unpackResponse">>]
        ELSE IF responseFailed(u.resp)
        THEN [err |-> NewError("Response", u.resp.Error),
              target |-> target,
              trace |-> <<"readResponse", "parseHeader", "unpackResponse">>]
        ELSE IF ret.isNil
        THEN [err |-> NoError, target |-> target,
              trace |-> <<"readResponse", "parseHeader", "unpackResponse">>]
        ELSE IF ~pk.ok
        THEN [err |-> NewError("Packager", "pack response retval error"),
              target |-> target,
              trace |-> <<"readResponse", "parseHeader", "unpackResponse", "repack">>]
        ELSE IF ~d.ok
        THEN [err |-> NewError("Packager", "pack response retval error"),
              target |-> d.target,
              trace |-> <<"readResponse", "parseHeader", "unpackResponse", "repack",
                          "unpackInto">>]
        ELSE [err |-> NoError, target |-> d.target,
              trace |-> <<"readResponse", "parseHeader", "unpackResponse", "repack",
                          "unpackInto">>]

\* A variant that drops a body that does not decompress.
replyBody_Strict(resp) ==
    IF resp.contentGzip
    THEN (IF Gunzip(resp.body).ok THEN Gunzip(resp.body).bytes ELSE <<>>)
    ELSE resp.body

\* The bytes httpHandler hands to readResponse: the gunzipped body when the
\* reply is marked gzip and decompresses, the raw body otherwise.
replyBody(resp) ==
    IF resp.contentGzip /\ Gunzip(resp.body).ok
    THEN Gunzip(resp.body).bytes
    ELSE resp.body

\* ------------------------------------------------- the DNS-cache dialing

Colon == 58

\* strings.LastIndex(s, ":") as a position from 1, 0 when there is none.
LastIndex(s, c) ==
    IF \E i \in 1..Len(s) : s[i] = c
    THEN CHOOSE i \in 1..Len(s) : s[i] = c /\ \A j \in (i + 1)..Len(s) : s[j] # c
    ELSE 0

\* A variant that dials the last address the resolver returned.
dialTarget_Last(ips, address) ==
    ips[Len(ips)] \o Drop(address, LastIndex(address, Colon) - 1)

\* The address Dial connects to: the first address the resolver returned,
\* then the ":port" of the address it was asked for.
dialTarget(ips, address) ==
    ips[1] \o Drop(address, LastIndex(address, Colon) - 1)

\* dnsCacheHttpClient.Dial(address) with what globalResolver.Lookup
\* answers: the host looked up, the addresses net.Dial was called with,
\* and the error of a failed or empty lookup.
dnsDial(address, lookup) ==
    LET separator == LastIndex(address, Colon)
        host      == Take(address, separator - 1)
    IN  IF lookup.err
        THEN [ok |-> FALSE, msg |-> "Lookup Error", lookedUp |-> <<host>>,
              attempts |-> <<>>]
        ELSE IF Len(lookup.ips) < 1
        THEN [ok |-> FALSE, msg |-> "Lookup Error: No IP Resolver Result Found",
              lookedUp |-> <<host>>, attempts |-> <<>>]
        ELSE [ok |-> TRUE, msg |-> "", lookedUp |-> <<host>>,
              attempts |-> <<dialTarget(lookup.ips, address)>>]

\* ------------------------------------------------------------------ state

VARIABLES
    client,      \* the Client: whether one is constructed, its scheme, its Opt
    handles,     \* ReadTimeout (ms) of httpClient and of dnsCacheHttpClient
    pc,          \* "idle", "dispatch" (inside DoTimeout) or "returned"
    call,        \* the arguments of the Call in progress
    target,      \* what the caller's result target holds
    req,         \* what httpHandler built: the request, its encoding, what it sent
    resp,        \* the reply DoTimeout delivered
    err,         \* what the Call returned
    trace,       \* the stages the Call ran, in order
    dispatches,  \* how often the Call handed a request to the transport
    dial,        \* what dnsCacheHttpClient.Dial did for the Call
    codec        \* what the Call handed to the codec: names, envelope bytes

\* Two callers inside httpHandler at once, on the process-wide handles.
VARIABLES
    cpc,         \* where each concurrent caller is inside httpHandler
    cclient,     \* the client each concurrent caller calls
    cseen        \* the handle's ReadTimeout at each caller's DoTimeout

\* The host list synchronisation (package host_sync).
VARIABLES
    dockerAPI,     \* the docker API's address, empty until SetDockerAPI
    redisClient,   \* "nil" until SetRedisHost, then "open"
    registry,      \* the containers the docker API reports, in its order
    hostCheckSum,  \* hostCheckSum: key -> the digest recorded
    store,         \* redis: key -> the value stored, and whether it expired
    synclog        \* the last SyncAllHostList: its error, the writes it asked for

callVars ==
    <<client, handles, pc, call, target, req, resp, err, trace, dispatches, dial, codec>>

concVars == <<cpc, cclient, cseen>>

syncVars == <<dockerAPI, redisClient, registry, hostCheckSum, store, synclog>>

vars == <<callVars, concVars, syncVars>>

\* ----------------------------------------------------------------- inputs

Schemes == {"http", "https", "tcp", "udp", "unix"}

\* Addresses a caller passes to NewClient, by scheme; "ftp" is one that
\* parseAddrNetName refuses.
Addrs == Schemes \cup {"ftp"}

\* The protocol tag 0x80DFEC60.
Magic == <<32991, 60512>>

OtherMagic == <<32991, 60513>>

Echo == <<69, 99, 104, 111>>

BaseOpt ==
    [Provider |-> Str(4), ServiceName |-> Str(6), MagicNumber |-> Magic,
     Packager |-> JSON, Timeout |-> 2000, RequestGzip |-> FALSE,
     AcceptGzip |-> FALSE, DNSCache |-> FALSE]

ProviderLens == {0, 4, ProviderWidth} \cup (ProviderWidth + 1 .. ProviderWidth + MaxExtra)

TokenLens == {0, TokenWidth} \cup (TokenWidth + 1 .. TokenWidth + MaxExtra)

\* The Options a caller configures.
Opts ==
    {[BaseOpt EXCEPT !.Provider = Str(p), !.ServiceName = Str(t)] :
        p \in ProviderLens, t \in TokenLens}
    \cup {[BaseOpt EXCEPT !.Packager = n, !.RequestGzip = g] :
        n \in {JSON, LONG9, NOCODEC}, g \in BOOLEAN}
    \cup {[BaseOpt EXCEPT !.DNSCache = d, !.Timeout = t, !.AcceptGzip = a] :
        d \in BOOLEAN, t \in {1000, 2000}, a \in BOOLEAN}

\* Correlation ids NewRequest hands out.
MaxId == 1

Ids == 1..MaxId

Methods == {<<>>, Echo}

Nil == [isNil |-> TRUE, elems |-> <<>>]

ParamsSet == {Nil, [isNil |-> FALSE, elems |-> <<7>>],
              [isNil |-> FALSE, elems |-> <<Unencodable>>]}

\* A result target is nil or points to a struct the caller initialised.
Rets == {[isNil |-> TRUE], [isNil |-> FALSE]}

Target0 == [i \in 1..TargetFields |-> 0]

NoClient == [valid |-> FALSE, net |-> "", Opt |-> BaseOpt]

NoCall ==
    [method |-> <<>>, ret |-> [isNil |-> TRUE], params |-> Nil, id |-> 0,
     handles0 |-> [httpClient |-> 0, dnsCacheHttpClient |-> 0]]

NoReq ==
    [r |-> NoRequest, packBody |-> <<>>, postBuffer |-> <<>>, setTimeout |-> FALSE,
     sent |-> NoSent]

NoResp == [present |-> FALSE, body |-> <<>>, contentGzip |-> FALSE]

\* ------------------------------------------------------ the peer's replies

\* A reply frame: a header with the given tag, id, codec name and claimed
\* body length, followed by `body`.
Frame(magic, id, name, claimed, body) ==
    HeaderBytes([NewHeader EXCEPT !.MagicNumber = magic, !.Id = U32(id),
                                  !.Packager = name \o Zeros(PackagerLength - Len(name)),
                                  !.BodyLength = claimed]) \o body

\* A frame whose body length field is right.
Exact(magic, id, name, body) ==
    Frame(magic, id, name, U32(Len(body) + PackagerLength), body)

\* A response envelope as the codec `name` writes it.
Envelope(name, id, status, msg, retval) ==
    <<Marker(name), id, status, msg, Len(retval)>> \o retval

Retvals == {<<1, 2>>, <<1, 200>>, <<200, 2>>, <<1>>, <<>>}

\* The bodies a peer that read codec name `name` answers request `id` with.
Bodies(name, id) ==
    {Envelope(name, id, ERR_OKEY, 0, v) : v \in Retvals}
    \cup {Envelope(name, id, 1, m, <<>>) : m \in {1, 2}}
    \cup {<<0, 0, 0>>}

\* The replies to the request in flight: well-framed ones, frames whose
\* body length field is wrong, cut-off frames, a frame with bytes after the
\* body, frames of another request or tag, and replies marked gzip.
Replies(c, id) ==
    LET name == sendPackager(c)
        good == Envelope(name, id, ERR_OKEY, 0, <<1, 2>>)
        full == Exact(c.Opt.MagicNumber, id, name, good)
        raw(b) == [present |-> TRUE, body |-> b, contentGzip |-> FALSE]
        zip(b) == [present |-> TRUE, body |-> b, contentGzip |-> TRUE]
    IN  {raw(Exact(c.Opt.MagicNumber, id, name, b)) : b \in Bodies(name, id)}
        \cup {raw(Frame(c.Opt.MagicNumber, id, name, n, good)) :
                n \in {U32(0), U32(PackagerLength - 1), U32(PackagerLength),
                       U32(Len(good) + PackagerLength - 1),
                       U32(Len(good) + PackagerLength + 1),
                       <<Half - 1, Half - 1>>}}
        \cup {raw(Take(full, n)) :
                n \in {0, HeaderWidth - 1, HeaderWidth, Len(full) - 1}}
        \cup {raw(full \o <<0>>),
              raw(Frame(c.Opt.MagicNumber, id, name, U32(PackagerLength - 1), <<>>))}
        \cup {raw(Exact(c.Opt.MagicNumber, id + 1, name, Envelope(name, id + 1, ERR_OKEY, 0, <<1, 2>>))),
              raw(Exact(OtherMagic, id, name, good))}
        \cup {zip(Gzip(full)), zip(full), zip(<<31, 139, 0>>)}

\* The "host:port" addresses fasthttp hands to Dial: "h:80" and "[::1]:80".
DialAddrs == {<<104, 58, 56, 48>>, <<91, 58, 58, 49, 93, 58, 56, 48>>}

\* Addresses a resolver returns, as ips[i].String(): "1.1" and "2.2".
IP1 == <<49, 46, 49>>

IP2 == <<50, 46, 50>>

\* What globalResolver.Lookup answers.
Lookups ==
    {[err |-> TRUE, ips |-> <<>>]}
    \cup {[err |-> FALSE, ips |-> l] : l \in {<<>>, <<IP1>>, <<IP1, IP2>>, <<IP2, IP1>>}}

NoDial ==
    [done |-> FALSE, address |-> <<>>, lookup |-> [err |-> FALSE, ips |-> <<>>],
     lookedUp |-> <<>>, attempts |-> <<>>]

NoCodec == [names |-> <<>>, envelope |-> <<>>]

\* --------------------------------------------------------------- actions

InitCall ==
    /\ client = NoClient
    /\ handles = [httpClient |-> 0, dnsCacheHttpClient |-> 0]
    /\ pc = "idle"
    /\ call = NoCall
    /\ target = Target0
    /\ req = NoReq
    /\ resp = NoResp
    /\ err = NoError
    /\ trace = <<>>
    /\ dispatches = 0
    /\ dial = NoDial
    /\ codec = NoCodec

\* NewClient(addr) followed by the caller's configuration of client.Opt:
\* an address whose scheme parseAddrNetName knows yields a client (tcp, udp
\* and unix included), any other address yields none.
NewClient(addr, opt) ==
    /\ pc = "idle"
    /\ addr \in Schemes
    /\ client' = [valid |-> TRUE, net |-> addr, Opt |-> opt]
    /\ UNCHANGED <<handles, pc, call, target, req, resp, err, trace, dispatches, dial, codec>>
    /\ UNCHANGED <<concVars, syncVars>>

\* NewClient(addr) for an address it refuses: no client is made.
NewClientRefused(addr) ==
    /\ pc = "idle"
    /\ addr \notin Schemes
    /\ client' = NoClient
    /\ UNCHANGED <<handles, pc, call, target, req, resp, err, trace, dispatches, dial, codec>>
    /\ UNCHANGED <<concVars, syncVars>>

\* A variant that hands every scheme to httpHandler.
isHTTP_Any(c) == TRUE

\* The test of Call for a scheme httpHandler serves.
isHTTP(c) == c.net = "http" \/ c.net = "https"

\* The error of the unused sockHandler, a Param error.
unsupportedError_Param == NewError("Param", "unsupported sock request")

\* The error Call returns for any other scheme.
unsupportedError == NewError("Config", "unsupported non http protocol")

\* DoTimeout fails and the request is handed to the transport once more.
DoTimeoutError_Retry(why) ==
    /\ pc = "dispatch"
    /\ dispatches < 3
    /\ dispatches' = dispatches + 1
    /\ UNCHANGED <<client, handles, call, target, req, resp, err, trace, pc, dial, codec>>
    /\ UNCHANGED <<concVars, syncVars>>

\* Client.Call on a client whose scheme is not http or https.
CallUnsupported(method, ret, params) ==
    /\ pc = "idle"
    /\ client.valid
    /\ ~isHTTP(client)
    /\ call' = [method |-> method, ret |-> ret, params |-> params, id |-> 0,
                handles0 |-> handles]
    /\ target' = Target0
    /\ err' = unsupportedError
    /\ pc' = "returned"
    /\ UNCHANGED <<client, handles, req, resp, trace, dispatches, dial, codec>>
    /\ UNCHANGED <<concVars, syncVars>>

\* Client.Call on an http or https client, up to the return of an early
\* error or to the hand-over of the request to DoTimeout.
Call(method, ret, params, id, env) ==
    /\ pc = "idle"
    /\ client.valid
    /\ isHTTP(client)
    /\ LET h == httpHandlerSend(client, method, params, id, env)
       IN  /\ call' = [method |-> method, ret |-> ret, params |-> params, id |-> id,
                       handles0 |-> handles]
           /\ target' = Target0
           /\ req' = [r |-> h.r, packBody |-> h.packBody, postBuffer |-> h.postBuffer,
                      setTimeout |-> h.setTimeout, sent |-> h.sent]
           /\ handles' = IF h.setTimeout
                         THEN setReadTimeout(handles, client)
                         ELSE handles
           /\ trace' = h.trace
           /\ err' = h.err
           /\ IF h.err = NoError
              THEN pc' = "dispatch" /\ dispatches' = dispatches + 1
              ELSE pc' = "returned" /\ dispatches' = dispatches
           /\ client' = IF Has(h.trace, "packRequest")
                        THEN [client EXCEPT !.Opt = optAfterPack(client)]
                        ELSE client
           /\ codec' = [names |-> IF Has(h.trace, "packRequest")
                                  THEN <<sendPackager(client)>> ELSE <<>>,
                        envelope |-> <<>>]
    /\ UNCHANGED <<resp, dial>>
    /\ UNCHANGED <<concVars, syncVars>>

\* DoTimeout on dnsCacheHttpClient opens its connection through Dial: a
\* failed or empty lookup fails the DoTimeout, and with it the Call.
Dial(address, lookup) ==
    /\ pc = "dispatch"
    /\ handleOf(client) = "dnsCacheHttpClient"
    /\ ~dial.done
    /\ LET d == dnsDial(address, lookup)
       IN  /\ dial' = [done |-> TRUE, address |-> address, lookup |-> lookup,
                       lookedUp |-> d.lookedUp, attempts |-> d.attempts]
           /\ IF d.ok
              THEN UNCHANGED <<err, pc>>
              ELSE err' = NewError("Network", d.msg) /\ pc' = "returned"
    /\ UNCHANGED <<client, handles, call, target, req, resp, trace, dispatches, codec>>
    /\ UNCHANGED <<concVars, syncVars>>

\* The connection DoTimeout needs is there: any on httpClient, the dialed
\* one on dnsCacheHttpClient.
connected == handleOf(client) = "dnsCacheHttpClient" => dial.done

\* DoTimeout fails: the timeout expired, or the transport failed otherwise.
DoTimeoutError(why) ==
    /\ pc = "dispatch"
    /\ connected
    /\ err' = NewError("Network", why)
    /\ pc' = "returned"
    /\ UNCHANGED <<client, handles, call, target, req, resp, trace, dispatches, dial, codec>>
    /\ UNCHANGED <<concVars, syncVars>>

\* DoTimeout delivers a reply: httpHandler gunzips it when it is marked
\* gzip and hands the bytes to readResponse, whose result the Call returns.
DoTimeoutReply(reply, env) ==
    /\ pc = "dispatch"
    /\ connected
    /\ LET b  == replyBody(reply)
           rr == readResponse(client, b, call.ret, target, env)
       IN  /\ resp' = reply
           /\ target' = rr.target
           /\ err' = rr.err
           /\ trace' = trace \o (IF reply.contentGzip THEN <<"gunzip">> ELSE <<>>)
                             \o rr.trace
           /\ codec' = [names |-> codec.names \o codecNamesOf(client, rr.trace),
                        envelope |-> IF Has(rr.trace, "unpackResponse")
                                     THEN bodyBuffer(b) ELSE <<>>]
    /\ pc' = "returned"
    /\ UNCHANGED <<client, handles, call, req, dispatches, dial>>
    /\ UNCHANGED <<concVars, syncVars>>

\* The caller takes the result; the request and the response are dropped.
Return ==
    /\ pc = "returned"
    /\ pc' = "idle"
    /\ call' = NoCall
    /\ target' = Target0
    /\ req' = NoReq
    /\ resp' = NoResp
    /\ err' = NoError
    /\ trace' = <<>>
    /\ dispatches' = 0
    /\ dial' = NoDial
    /\ codec' = NoCodec
    /\ UNCHANGED <<client, handles>>
    /\ UNCHANGED <<concVars, syncVars>>

Next ==
    \/ \E a \in Addrs, o \in Opts : NewClient(a, o)
    \/ \E a \in Addrs : NewClientRefused(a)
    \/ \E m \in Methods, r \in Rets, p \in ParamsSet : CallUnsupported(m, r, p)
    \/ \E m \in Methods, r \in Rets, p \in ParamsSet, i \in Ids,
          e \in [gzipFail : BOOLEAN] : Call(m, r, p, i, e)
    \/ \E a \in DialAddrs, l \in Lookups : Dial(a, l)
    \/ \E w \in {"timeout", "connection refused"} : DoTimeoutError(w)
    \/ \E y \in Replies(client, call.id),
          e \in [repackFail : BOOLEAN, partial : BOOLEAN] : DoTimeoutReply(y, e)
    \/ Return

\* Before any caller runs and before any synchronisation.
\* ------------------------------------------- concurrent callers of Call
\* Two goroutines call Call at the same time, each on its own client; the
\* handles httpClient and dnsCacheHttpClient are the same two objects for
\* both. A caller's steps are the statements of httpHandler that touch the
\* handle: its selection, the write of ReadTimeout, and DoTimeout.

Callers == {1, 2}

\* The Options the concurrent callers configure: they differ in the handle
\* selected and in the timeout.
ConcOpts ==
    {[BaseOpt EXCEPT !.DNSCache = d, !.Timeout = t] :
        d \in BOOLEAN, t \in {1000, 2000}}

InitConc ==
    /\ cpc = [p \in Callers |-> "idle"]
    /\ cclient = [p \in Callers |-> NoClient]
    /\ cseen = [p \in Callers |-> 0]

\* everything of a Call but the shared handles
callLocals == <<client, pc, call, target, req, resp, err, trace, dispatches, dial, codec>>

\* Caller p enters Call on an http client with a method name: the request
\* is built and packed, and the handle is selected.
CCall(p, opt) ==
    /\ cpc[p] = "idle"
    /\ cclient' = [cclient EXCEPT ![p] = [valid |-> TRUE, net |-> "http", Opt |-> opt]]
    /\ cpc' = [cpc EXCEPT ![p] = "selected"]
    /\ UNCHANGED <<cseen, handles, callLocals, syncVars>>

\* Caller p writes its timeout into the handle it selected.
CSetTimeout(p) ==
    /\ cpc[p] = "selected"
    /\ handles' = setReadTimeout(handles, cclient[p])
    /\ cpc' = [cpc EXCEPT ![p] = "written"]
    /\ UNCHANGED <<cclient, cseen, callLocals, syncVars>>

\* Caller p dispatches: DoTimeout runs with the handle's ReadTimeout as it
\* is at this moment.
CDoTimeout(p) ==
    /\ cpc[p] = "written"
    /\ cseen' = [cseen EXCEPT ![p] = handles[handleOf(cclient[p])]]
    /\ cpc' = [cpc EXCEPT ![p] = "dispatched"]
    /\ UNCHANGED <<cclient, handles, callLocals, syncVars>>

\* Caller p's Call returns.
CReturn(p) ==
    /\ cpc[p] = "dispatched"
    /\ cpc' = [cpc EXCEPT ![p] = "done"]
    /\ UNCHANGED <<cclient, cseen, handles, callLocals, syncVars>>

\* Both Calls are over; the callers go on to their next Calls. The handles
\* keep the timeouts last written.
CNext ==
    /\ \A p \in Callers : cpc[p] = "done"
    /\ cpc' = [p \in Callers |-> "idle"]
    /\ cclient' = [p \in Callers |-> NoClient]
    /\ cseen' = [p \in Callers |-> 0]
    /\ UNCHANGED <<handles, callLocals, syncVars>>

NextConc ==
    \/ \E p \in Callers, o \in ConcOpts : CCall(p, o)
    \/ \E p \in Callers : CSetTimeout(p)
    \/ \E p \in Callers : CDoTimeout(p)
    \/ \E p \in Callers : CReturn(p)
    \/ CNext

\* ------------------------------------------------- package host_sync
\* The discovery: SyncAllHostList reads the containers the docker API
\* lists, groups their addresses by (pool, service) and publishes each list
\* to redis when its digest is not the one recorded in hostCheckSum.

\* "__yar_host_sync__:"
redisPrefix ==
    <<95, 95, 121, 97, 114, 95, 104, 111, 115, 116, 95, 115, 121, 110, 99, 95, 95, 58>>

MinOf(S) == CHOOSE x \in S : \A y \in S : x <= y

MaxOf(S) == CHOOSE x \in S : \A y \in S : y <= x

\* json.Marshal of a []string whose elements need no escaping: a nil slice
\* is null, otherwise the quoted elements between brackets.
RECURSIVE jsonItems(_)
jsonItems(list) ==
    IF Len(list) = 0 THEN <<>>
    ELSE <<34>> \o list[1] \o <<34>>
         \o (IF Len(list) > 1 THEN <<44>> \o jsonItems(Tail(list)) ELSE <<>>)

jsonNull == <<110, 117, 108, 108>>

jsonMarshal(list) ==
    IF Len(list) = 0 THEN jsonNull ELSE <<91>> \o jsonItems(list) \o <<93>>

\* json.Unmarshal into a []string, of the same texts.
RECURSIVE jsonParseItems(_)
jsonParseItems(s) ==
    IF Len(s) = 0 THEN [err |-> FALSE, host |-> <<>>]
    ELSE IF s[1] # 34 \/ {i \in 2..Len(s) : s[i] = 34} = {}
    THEN [err |-> TRUE, host |-> <<>>]
    ELSE LET close == MinOf({i \in 2..Len(s) : s[i] = 34})
             item  == SubSeq(s, 2, close - 1)
             rest  == Drop(s, close)
         IN  IF Len(rest) = 0 THEN [err |-> FALSE, host |-> <<item>>]
             ELSE IF rest[1] # 44 \/ Len(rest) < 2 THEN [err |-> TRUE, host |-> <<>>]
             ELSE LET r == jsonParseItems(Tail(rest))
                  IN  IF r.err THEN r
                      ELSE [err |-> FALSE, host |-> <<item>> \o r.host]

jsonUnmarshal(b) ==
    IF b = jsonNull THEN [err |-> FALSE, host |-> <<>>]
    ELSE IF Len(b) < 2 \/ b[1] # 91 \/ b[Len(b)] # 93
    THEN [err |-> TRUE, host |-> <<>>]
    ELSE jsonParseItems(SubSeq(b, 2, Len(b) - 1))

HexDigit(n) == IF n < 10 THEN 48 + n ELSE 87 + n

\* hex.EncodeToString: two lower-case hex digits per byte.
hexEncode(b) ==
    [i \in 1..(2 * Len(b)) |->
        IF i % 2 = 1 THEN HexDigit(b[(i + 1) \div 2] \div 16)
        ELSE HexDigit(b[(i + 1) \div 2] % 16)]

\* The digest SyncAllHostList compares: the hex text of the list's JSON.
checkSum(hostList) == hexEncode(jsonMarshal(hostList))

\* A Go map[string]string as a set of entries; a missing key reads as "".
mapHas(m, k) == \E e \in m : e.key = k

mapGet(m, k) == IF mapHas(m, k) THEN (CHOOSE e \in m : e.key = k).val ELSE <<>>

mapPut(m, k, v) == {e \in m : e.key # k} \cup {[key |-> k, val |-> v]}

\* fmt.Sprintf("%s_%s", pool, service)
checkSumKey(pool, service) == pool \o <<95>> \o service

\* fmt.Sprintf("%s%s:%s", redisPrefix, pool, name)
redisKey(pool, name) == redisPrefix \o pool \o <<58>> \o name

\* SetHostListToRedis: no client, no write; a Set that fails leaves the
\* entry as it was; otherwise the entry holds the list's JSON, not expired.
SetHostListToRedis(st, rc, pool, name, list, fail) ==
    IF rc = "nil" THEN [err |-> TRUE, store |-> st, set |-> FALSE]
    ELSE IF fail THEN [err |-> TRUE, store |-> st, set |-> TRUE]
    ELSE [err |-> FALSE, set |-> TRUE,
          store |-> {e \in st : e.key # redisKey(pool, name)}
                    \cup {[key |-> redisKey(pool, name), val |-> jsonMarshal(list),
                           expired |-> FALSE]}]

\* GetHostListFromRedis: an error without a client or without a live
\* entry, otherwise the entry's value parsed.
GetHostListFromRedis(st, rc, pool, name) ==
    IF rc = "nil" \/ ~\E e \in st : e.key = redisKey(pool, name) /\ ~e.expired
    THEN [err |-> TRUE, host |-> <<>>]
    ELSE jsonUnmarshal((CHOOSE e \in st : e.key = redisKey(pool, name)).val)

\* "pool=="
PoolTag == <<112, 111, 111, 108, 61, 61>>

\* The label value a swarm constraint on a pool has: ["pool==<pool>"]
Constraint(pool) == <<91, 34>> \o PoolTag \o pool \o <<34, 93>>

\* \w of the regular expression
IsWord(ch) == ch \in (48..57) \cup (65..90) \cup (97..122) \cup {95}

\* The pool of a container: the first match of pool\=\=(\w+) in its
\* constraints label, or the whole label when nothing matches.
poolOf(constraints) ==
    LET s      == constraints
        starts == {i \in 1..Len(s) :
                     /\ i + 6 <= Len(s)
                     /\ SubSeq(s, i, i + 5) = PoolTag
                     /\ IsWord(s[i + 6])}
    IN  IF starts = {} THEN s
        ELSE LET i == MinOf(starts) + 6
             IN  SubSeq(s, i, MaxOf({j \in i..Len(s) : \A k \in i..j : IsWord(s[k])}))

\* The service of a container: wxhost-service-name when set, else the
\* compose service.
serviceOf(c) == IF Len(c.wxhost) > 0 THEN c.wxhost ELSE c.service

\* fmt.Sprintf("%s:%s", ip, port) of the container's first port
hostOf(c) == c.ip \o <<58>> \o c.port

\* list[pool][service]: the addresses of the containers of a pool and
\* service that publish a port, in the order the API lists them.
RECURSIVE hostsOf(_, _, _)
hostsOf(reg, pool, service) ==
    IF Len(reg) = 0 THEN <<>>
    ELSE (IF /\ reg[1].labels /\ reg[1].hasPort
             /\ poolOf(reg[1].constraints) = pool /\ serviceOf(reg[1]) = service
          THEN <<hostOf(reg[1])>> ELSE <<>>)
         \o hostsOf(Tail(reg), pool, service)

\* The (pool, service) pairs the publication loop ranges over.
listKeys(reg) ==
    {<<poolOf(reg[i].constraints), serviceOf(reg[i])>> :
        i \in {j \in DOMAIN reg : reg[j].labels /\ reg[j].hasPort}}

\* The orders a range over list and over list[pool] can take: any order of
\* the pools, and any order of the services within a pool.
loopOrders(keys) ==
    {o \in [1..Cardinality(keys) -> keys] :
        /\ \A i, j \in DOMAIN o : i # j => o[i] # o[j]
        /\ \A i, j, k \in DOMAIN o :
              i < j /\ j < k /\ o[i][1] = o[k][1] => o[j][1] = o[i][1]}

\* The publication loop over the pairs in `order`; the Set of a pair in
\* `fails` fails. writes lists the pairs redis was asked to set.
RECURSIVE publish(_, _, _, _, _)
publish(order, reg, rc, fails, acc) ==
    IF Len(order) = 0 THEN acc
    ELSE LET pool     == order[1][1]
             service  == order[1][2]
             hostList == hostsOf(reg, pool, service)
             key      == checkSumKey(pool, service)
             sum      == mapGet(acc.sum, key)
             s        == checkSum(hostList)
             w        == SetHostListToRedis(acc.store, rc, pool, service, hostList,
                                            order[1] \in fails)
         IN  IF sum = s THEN publish(Tail(order), reg, rc, fails, acc)
             ELSE publish(Tail(order), reg, rc, fails,
                          [sum    |-> mapPut(acc.sum, key, s),
                           store  |-> w.store,
                           writes |-> acc.writes
                                      \o (IF w.set THEN <<order[1]>> ELSE <<>>)])

\* The addresses the docker API returns for the label filter of
\* GetHostListFromDockerAPI: the containers whose constraints label is
\* ["pool==<pool>"] and whose wxhost-service-name is name.
filteredHosts(reg, pool, name) ==
    LET f(c) == c.labels /\ c.constraints = Constraint(pool) /\ c.wxhost = name
                /\ c.hasPort
        sel  == SelectSeq(reg, f)
    IN  [i \in 1..Len(sel) |-> hostOf(sel[i])]

\* The containers at hand. Two of them sit in pools and services whose
\* names hold an underscore: pool a / service b_c and pool a_b / service c.
Container(service, wxhost, constraints, ip, hasPort, labels) ==
    [service |-> service, wxhost |-> wxhost, constraints |-> constraints,
     ip |-> ip, port |-> <<56>>, hasPort |-> hasPort, labels |-> labels]

Containers ==
    {Container(<<120>>, <<98, 95, 99>>, Constraint(<<97>>), <<49>>, TRUE, TRUE),
     Container(<<99>>, <<>>, Constraint(<<97, 95, 98>>), <<50>>, TRUE, TRUE),
     Container(<<99>>, <<>>, <<122>>, <<51>>, FALSE, FALSE)}

\* The most containers the API lists.
MaxContainers == 2

\* The (pool, name) pairs callers of GetHostListFromDockerAPI ask for.
Asked == {<<<<97>>, <<98, 95, 99>>>>, <<<<97, 95, 98>>, <<99>>>>}

APIs == {<<>>, <<117>>}

NoSync == [clean |-> FALSE, err |-> FALSE, unchanged |-> FALSE, writes |-> <<>>]

InitSync ==
    /\ dockerAPI = <<>>
    /\ redisClient = "nil"
    /\ registry = <<>>
    /\ hostCheckSum = {}
    /\ store = {}
    /\ synclog = NoSync

SetDockerAPI(api) ==
    /\ dockerAPI' = api
    /\ UNCHANGED <<redisClient, registry, hostCheckSum, store, synclog>>
    /\ UNCHANGED <<callVars, concVars>>

SetRedisHost ==
    /\ redisClient' = "open"
    /\ UNCHANGED <<dockerAPI, registry, hostCheckSum, store, synclog>>
    /\ UNCHANGED <<callVars, concVars>>

\* A container starts: the API lists it after the others.
ContainerStart(c) ==
    /\ Len(registry) < MaxContainers
    /\ \A i \in DOMAIN registry : registry[i] # c
    /\ registry' = Append(registry, c)
    /\ synclog' = NoSync
    /\ UNCHANGED <<dockerAPI, redisClient, hostCheckSum, store>>
    /\ UNCHANGED <<callVars, concVars>>

\* A container stops: the API lists the others.
ContainerStop(i) ==
    /\ i \in DOMAIN registry
    /\ registry' = SubSeq(registry, 1, i - 1) \o SubSeq(registry, i + 1, Len(registry))
    /\ synclog' = NoSync
    /\ UNCHANGED <<dockerAPI, redisClient, hostCheckSum, store>>
    /\ UNCHANGED <<callVars, concVars>>

\* The seven days of a redis entry are over.
Expire(k) ==
    /\ \E e \in store : e.key = k /\ ~e.expired
    /\ store' = {IF e.key = k THEN [e EXCEPT !.expired = TRUE] ELSE e : e \in store}
    /\ UNCHANGED <<dockerAPI, redisClient, registry, hostCheckSum, synclog>>
    /\ UNCHANGED <<callVars, concVars>>

\* SyncAllHostList: an error of the API call returns early; otherwise the
\* publication loop runs and nil is returned, whatever the Sets returned.
SyncAllHostList(apiFail) ==
    /\ IF apiFail \/ Len(dockerAPI) = 0
       THEN /\ synclog' = [NoSync EXCEPT !.clean = synclog.clean, !.err = TRUE]
            /\ UNCHANGED <<hostCheckSum, store>>
       ELSE \E o \in loopOrders(listKeys(registry)),
               fails \in SUBSET listKeys(registry) :
               LET r == publish(o, registry, redisClient, fails,
                                [sum |-> hostCheckSum, store |-> store, writes |-> <<>>])
               IN  /\ hostCheckSum' = r.sum
                   /\ store' = r.store
                   /\ synclog' = [NoSync EXCEPT !.clean = TRUE,
                                                !.unchanged = synclog.clean,
                                                !.writes = r.writes]
    /\ UNCHANGED <<dockerAPI, redisClient, registry>>
    /\ UNCHANGED <<callVars, concVars>>

\* GetHostListFromDockerAPI: the filtered list is written to redis (the
\* result of the write is dropped) and returned; hostCheckSum is not
\* touched.
GetHostListFromDockerAPI(pool, name, apiFail, setFail) ==
    /\ IF Len(dockerAPI) < 1 \/ apiFail
       THEN UNCHANGED store
       ELSE LET list == filteredHosts(registry, pool, name)
            IN  store' = SetHostListToRedis(store, redisClient, pool, name, list,
                                            setFail).store
    /\ UNCHANGED <<dockerAPI, redisClient, registry, hostCheckSum, synclog>>
    /\ UNCHANGED <<callVars, concVars>>

NextSync ==
    \/ \E a \in APIs : SetDockerAPI(a)
    \/ SetRedisHost
    \/ \E c \in Containers : ContainerStart(c)
    \/ \E i \in 1..MaxContainers : ContainerStop(i)
    \/ \E a \in Asked : Expire(redisKey(a[1], a[2]))
    \/ \E f \in BOOLEAN : SyncAllHostList(f)
    \/ \E a \in Asked, f \in BOOLEAN, g \in BOOLEAN :
          GetHostListFromDockerAPI(a[1], a[2], f, g)

Init == InitCall /\ InitConc /\ InitSync

Spec == Init /\ [][Next]_vars

SpecConc == Init /\ [][NextConc]_vars

SpecSync == Init /\ [][NextSync]_vars

\* ------------------------------------------------------------- properties

Returned == pc = "returned"

\* The request of the Call can be encoded: the codec the truncated name
\* selects exists and every param is encodable.
Encodable ==
    /\ Registered(sendPackager(client))
    /\ \A i \in 1..Len(call.params.elems) : call.params.elems[i] # Unencodable

\* The bytes readResponse was given.
AllBody == replyBody(resp)

\* The reply carries more bytes than its header claims a body of, or fewer.
\* present + W < claimed is claimed - W > present without any wrap-around.
Present == Len(AllBody) - HeaderWidth

Claimed == HeaderInit(Take(AllBody, HeaderWidth)).BodyLength

ClaimsMoreThanPresent ==
    Len(AllBody) >= HeaderWidth /\ Less32(U32(Present + PackagerLength), Claimed)

Framed == Len(AllBody) >= HeaderWidth /\ ~bodyTooShort(AllBody)

\* What the configured codec makes of the bytes after the header.
Decoded == UnpackResponse(client.Opt.Packager, Drop(AllBody, HeaderWidth))

\* The kind the first failing stage of a reply's handling maps to, "nil"
\* when none fails before the decode into the target.
ReplyKind ==
    IF Len(AllBody) < HeaderWidth THEN "Response"
    ELSE IF ~Framed THEN "Response"
    ELSE IF ~Decoded.ok THEN "Packager"
    ELSE IF Decoded.resp.Status # ERR_OKEY THEN "Response"
    ELSE "nil"

\* C1: every Call ends in no error or in exactly one error of one of the
\* five kinds, decided by the first stage that failed, and no later stage
\* ran: empty method -> Param, scheme other than http/https -> Config,
\* request encode -> Packager, gzip or dispatch -> Network, short or
\* under-filled reply or peer status -> Response, envelope decode or either
\* stage of the decode into the target -> Packager.
C1_OneClassifiedOutcome ==
    Returned =>
        /\ err.kind \in ErrorKinds \cup {"nil"}
        /\ ~isHTTP(client) => err.kind = "Config" /\ trace = <<>> /\ dispatches = 0
        /\ isHTTP(client) =>
            /\ call.method = <<>> =>
                err.kind = "Param" /\ trace = <<"initRequest">> /\ dispatches = 0
            /\ call.method # <<>> /\ ~Encodable =>
                /\ err.kind = "Packager"
                /\ trace = <<"initRequest", "packRequest">>
                /\ dispatches = 0
            /\ call.method # <<>> /\ Encodable /\ dispatches = 0 =>
                err.kind = "Network" /\ Last(trace) = "gzip" /\ ~resp.present
            /\ dispatches = 1 /\ ~resp.present =>
                err.kind = "Network" /\ Last(trace) = "dispatch"
            /\ resp.present =>
                /\ dispatches = 1
                /\ ReplyKind # "nil" =>
                    /\ err.kind = ReplyKind
                    /\ ~Has(trace, "repack")
                    /\ ~Framed => ~Has(trace, "unpackResponse")
                /\ ReplyKind = "nil" /\ call.ret.isNil => err = NoError
                /\ ReplyKind = "nil" /\ ~call.ret.isNil =>
                    \/ err = NoError /\ Last(trace) = "unpackInto"
                    \/ err.kind = "Packager" /\ Last(trace) \in {"repack", "unpackInto"}
            /\ err.kind # "Config"

\* A Call whose reply failed in the second stage of the decode into the
\* target has returned a Packager error.
C1_Witness ==
    /\ Returned /\ resp.present /\ ReplyKind = "nil"
    /\ err.kind = "Packager" /\ Last(trace) = "unpackInto"

\* C2: on a client of scheme tcp, udp or unix every Call, whatever the
\* method and the params, returns a Config error at once: no request is
\* built or encoded, no shared handle is touched, nothing is dispatched.
C2_UnsupportedSchemeConfigError ==
    Returned /\ client.net \in {"tcp", "udp", "unix"} =>
        /\ err.kind = "Config"
        /\ trace = <<>>
        /\ req = NoReq
        /\ handles = call.handles0
        /\ dispatches = 0
        /\ ~resp.present

\* A Call with the empty method on a tcp client has returned.
C2_Witness ==
    Returned /\ client.net = "tcp" /\ call.method = <<>> /\ err.kind = "Config"

\* C3 as claimed: on any constructed client a Call with the empty method
\* returns a Param error and nothing is sent.
C3_AnyClientEmptyMethodParam ==
    Returned /\ call.method = <<>> =>
        err.kind = "Param" /\ dispatches = 0 /\ req.sent = NoSent

\* C3, amended: on an http or https client a Call with the empty method
\* returns a Param error, and nothing is encoded, sent or dispatched.
C3_HttpEmptyMethodParam ==
    Returned /\ isHTTP(client) /\ call.method = <<>> =>
        /\ err = NewError("Param", "call empty method")
        /\ dispatches = 0
        /\ req.sent = NoSent
        /\ ~Has(trace, "packRequest") /\ ~Has(trace, "dispatch")
        /\ ~resp.present

\* A Call with the empty method on an http client has returned.
C3_Witness ==
    Returned /\ client.net = "http" /\ call.method = <<>> /\ err.kind = "Param"

\* The reply passed the length checks and the configured codec decoded it.
GotResponse == Returned /\ resp.present /\ Framed /\ Decoded.ok

\* C4: when the decoded response has a status other than OK, the Call
\* returns a Response error whose message is the peer's, and the result
\* target is not written: the decode into the target is not started.
C4_PeerFailureLeavesTarget ==
    GotResponse /\ Decoded.resp.Status # ERR_OKEY =>
        /\ err = NewError("Response", Decoded.resp.Error)
        /\ target = Target0
        /\ ~Has(trace, "repack") /\ ~Has(trace, "unpackInto")

\* A peer-reported failure with the message "denied" reached a Call that
\* passed a result target.
C4_Witness ==
    /\ GotResponse /\ Decoded.resp.Status # ERR_OKEY /\ ~call.ret.isNil
    /\ err = NewError("Response", "denied")

\* C5: no partial success. A Call with a result target either returns no
\* error and the target holds the whole return value, or returns an error
\* and the target is as it was before the Call, also when the second
\* stage of the decode into the target fails.
C5_NoPartialSuccess ==
    Returned /\ ~call.ret.isNil =>
        \/ err = NoError /\ target = Decoded.resp.Retval
        \/ err # NoError /\ target = Target0

\* The return value has the shape of the target.
Fits(v) == Len(v) = TargetFields /\ \A i \in 1..Len(v) : IsIntElem(v[i])

\* C6 as claimed: a well-formed reply of status OK makes the Call return no
\* error, with the target equal to the return value.
C6_OkReplySucceeds ==
    GotResponse /\ Decoded.resp.Status = ERR_OKEY =>
        /\ err = NoError
        /\ ~call.ret.isNil => target = Decoded.resp.Retval

\* C6, amended: on a well-formed reply of status OK with return value v, a
\* Call without a result target returns no error and skips the second
\* decode; a Call with a target runs the re-encode and the decode into the
\* target, and returns no error with the target equal to v when both
\* succeed, a Packager error when the re-encode fails or v does not have
\* the target's shape.
C6_OkReplyTwoStage ==
    GotResponse /\ Decoded.resp.Status = ERR_OKEY =>
        /\ call.ret.isNil =>
            err = NoError /\ ~Has(trace, "repack") /\ target = Target0
        /\ ~call.ret.isNil =>
            /\ Has(trace, "repack")
            /\ Last(trace) = "unpackInto" /\ Fits(Decoded.resp.Retval) =>
                err = NoError /\ target = Decoded.resp.Retval
            /\ Last(trace) = "repack" \/ ~Fits(Decoded.resp.Retval) =>
                err.kind = "Packager"

\* The reply OK with return value <<1, 2>> has filled the target.
C6_Witness ==
    /\ GotResponse /\ Decoded.resp.Status = ERR_OKEY /\ ~call.ret.isNil
    /\ err = NoError /\ target = <<1, 2>>

\* The encoding of the request by the codec of the truncated name.
EncodedBody == PackRequestBytes(sendPackager(client), req.r)

\* C7 as claimed: the bytes sent are the header bytes, whose body length
\* field is L + 8, followed by the L bytes of the encoded body.
C7_SentIsHeaderThenBody ==
    dispatches >= 1 =>
        /\ Len(req.sent.body) = HeaderWidth + Len(EncodedBody)
        /\ HeaderInit(Take(req.sent.body, HeaderWidth)).BodyLength
               = U32(Len(EncodedBody) + PackagerLength)
        /\ Drop(req.sent.body, HeaderWidth) = EncodedBody

\* The payload of what was sent: the bytes themselves, or what they
\* decompress to when the request went out compressed.
SentPayload ==
    IF req.sent.contentGzip THEN Gunzip(req.sent.body).bytes ELSE req.sent.body

\* C7, amended: for every request that reaches dispatch, the payload - the
\* bytes sent when Opt.RequestGzip is off, the content of the gzip stream
\* sent when it is on - is the header bytes followed by exactly the L bytes
\* of the encoded body, and the header's body length field is L + 8
\* (as a uint32).
C7_PayloadIsHeaderThenBody ==
    dispatches >= 1 =>
        /\ req.sent.contentGzip = client.Opt.RequestGzip
        /\ req.sent.contentGzip => Gunzip(req.sent.body).ok
        /\ Len(SentPayload) = HeaderWidth + Len(EncodedBody)
        /\ HeaderInit(Take(SentPayload, HeaderWidth)).BodyLength
               = U32(Len(EncodedBody) + PackagerLength)
        /\ Take(SentPayload, HeaderWidth) = HeaderBytes(req.r.Protocol)
        /\ Drop(SentPayload, HeaderWidth) = EncodedBody

\* A compressed request with params is in the transport's hands.
C7_Witness ==
    /\ pc = "dispatch" /\ req.sent.contentGzip
    /\ Len(call.params.elems) = 1 /\ Len(EncodedBody) > 0

\* C8: readResponse returns a Response error, without a call of the codec
\* and without a write to the target, for every reply shorter than the
\* header and for every reply whose header claims a body (bodyLength less
\* the codec-name width) larger than the bytes present after the header.
C8_ShortReplyRejected ==
    Returned /\ resp.present /\ (Len(AllBody) < HeaderWidth \/ ClaimsMoreThanPresent) =>
        /\ err.kind = "Response"
        /\ target = Target0
        /\ ~Has(trace, "unpackResponse") /\ ~Has(trace, "repack")
        /\ ~Has(trace, "unpackInto")

\* A reply one byte short of the body its header claims was rejected.
C8_Witness ==
    /\ Returned /\ resp.present /\ ClaimsMoreThanPresent
    /\ Claimed = U32(Present + PackagerLength + 1)
    /\ err.kind = "Response"

\* C9: whatever the length of the configured provider and credential, the
\* header initRequest builds has a provider field of 28 bytes and a
\* credential field of 32 bytes that begin with the string, cut to the
\* field when it is longer, and building it never runs out of range.
C9_FixedWidthFields ==
    /\ err.kind # "panic"
    /\ Has(trace, "packRequest") =>
        LET h == req.r.Protocol
            p == client.Opt.Provider
            t == client.Opt.ServiceName
        IN  /\ Len(h.Provider) = 28
            /\ Len(h.Token) = 32
            /\ \A i \in 1..28 : i <= Len(p) => h.Provider[i] = p[i]
            /\ \A i \in 1..32 : i <= Len(t) => h.Token[i] = t[i]
            /\ \A i \in 1..28 : i > Len(p) => h.Provider[i] = 0
            /\ \A i \in 1..32 : i > Len(t) => h.Token[i] = 0

\* A request was built with a provider longer than its field and an empty
\* credential.
C9_Witness ==
    /\ Has(trace, "packRequest")
    /\ Len(client.Opt.Provider) > 28 /\ Len(client.Opt.ServiceName) = 0
    /\ Len(req.r.Protocol.Provider) = 28

\* C10: a Call dispatches at most once; a timeout or any other failure of
\* the transport ends it with a Network error, without any parsing of a
\* response and without a write to the target.
C10_SingleDispatch ==
    /\ dispatches <= 1
    /\ Returned /\ dispatches >= 1 /\ ~resp.present =>
        /\ err.kind = "Network"
        /\ dispatches = 1
        /\ ~Has(trace, "readResponse")
        /\ target = Target0

\* A dispatched Call has ended on the expiry of the timeout.
C10_Witness ==
    Returned /\ dispatches = 1 /\ err = NewError("Network", "timeout")

\* C11..C20 follow the specifications they are stated under.

\* The ":80" every address handed to Dial ends in.
Port80 == <<Colon, 56, 48>>

\* C12: in DNS-cache mode Dial first resolves the host part of "host:port";
\* when the Resolver fails or returns no address nothing is dialed and the
\* Call returns a Network error; when it returns addresses exactly one
\* connection is attempted, to the first of them on the original port, and
\* no other address is dialed.
C12_DialsFirstAddressOnly ==
    dial.done =>
        /\ client.Opt.DNSCache
        /\ dial.address = dial.lookedUp[1] \o Port80
        /\ Len(dial.lookedUp) = 1
        /\ dial.lookup.err \/ Len(dial.lookup.ips) = 0 =>
            /\ dial.attempts = <<>>
            /\ Returned /\ err.kind = "Network" /\ ~resp.present
        /\ ~dial.lookup.err /\ Len(dial.lookup.ips) > 0 =>
            dial.attempts = <<dial.lookup.ips[1] \o Port80>>

\* The resolver returned two addresses for "[::1]" and the first was dialed.
C12_Witness ==
    /\ dial.done /\ dial.lookup.ips = <<IP2, IP1>>
    /\ dial.lookedUp = <<<<91, 58, 58, 49, 93>>>>
    /\ dial.attempts = <<IP2 \o Port80>>

\* The resolver returned no address and the Call ended in a Network error.
C12_WitnessEmpty ==
    /\ dial.done /\ ~dial.lookup.err /\ dial.lookup.ips = <<>>
    /\ Returned /\ err.kind = "Network"

\* C13: the call path never changes the client's Options: over every step
\* of a Call, whatever its outcome, every field of Opt keeps its value,
\* the codec name longer than 8 bytes included.
C13_OptionsUnchanged ==
    [][(pc # "idle" \/ pc' # "idle") => client' = client]_vars

\* A Call on a client configured with the nine-byte codec name has gone
\* through packRequest and a reply, and the name is still the nine bytes.
C13_Witness ==
    /\ Returned /\ resp.present /\ Has(trace, "packRequest")
    /\ client.Opt.Packager = LONG9 /\ Len(client.Opt.Packager) = 9

\* What the codec may answer while readResponse runs.
ReadEnvs == [repackFail : BOOLEAN, partial : BOOLEAN]

\* C14: when the reply is marked gzip and does not decompress, the Call
\* raises no error for that: readResponse gets the raw reply bytes, and
\* the Call's outcome is what readResponse yields on them.
C14_GunzipFallback ==
    Returned /\ resp.present /\ resp.contentGzip /\ ~Gunzip(resp.body).ok =>
        \E e \in ReadEnvs :
            LET rr == readResponse(client, resp.body, call.ret, Target0, e)
            IN  /\ err = rr.err
                /\ target = rr.target
                /\ Has(trace, "gunzip")

\* A well-framed reply marked gzip, but not compressed, filled the target.
C14_Witness ==
    /\ Returned /\ resp.present /\ resp.contentGzip /\ ~Gunzip(resp.body).ok
    /\ err = NoError /\ target = <<1, 2>>

\* C16: within one Call one codec name is used throughout: the name the
\* request is encoded with (the configured name cut to 8 bytes) is the name
\* the response envelope is decoded with and the return value is re-encoded
\* and decoded with, for every configured name.
C16_OneCodecName ==
    \A i \in 1..Len(codec.names), j \in 1..Len(codec.names) :
        codec.names[i] = codec.names[j]

\* C17: a reply whose header claims a body length below the codec-name
\* width 8 is rejected with a Response error whatever its size: the
\* subtraction wraps to at least 2^32 - 8, more than the bytes present.
C17_SmallBodyLengthRejected ==
    Returned /\ resp.present /\ Len(AllBody) >= HeaderWidth
        /\ Less32(Claimed, U32(8)) =>
        /\ Sub32(Claimed, U32(8)) = <<Half - 1, Half - 8 + Claimed[2]>>
        /\ err.kind = "Response"
        /\ ~Has(trace, "unpackResponse")
        /\ target = Target0

\* A reply of exactly the header, claiming a body length of 7, was rejected.
C17_Witness ==
    /\ Returned /\ resp.present /\ Len(AllBody) = HeaderWidth
    /\ Claimed = U32(7) /\ err.kind = "Response"

\* The bytes the header claims as the body: the first bodyLength - 8 bytes
\* after the header (the claim is below 2^16 whenever the codec is reached
\* on the replies at hand).
ClaimedBody ==
    SubSeq(AllBody, HeaderWidth + 1, HeaderWidth + Claimed[2] - PackagerLength)

\* C18: the bytes handed to the codec as the response envelope are exactly
\* the bodyLength - 8 bytes that follow the header; bytes of the reply
\* beyond them never reach the codec.
C18_CodecGetsClaimedBody ==
    Returned /\ Has(trace, "unpackResponse") => codec.envelope = ClaimedBody

\* C19: a Call succeeds only on a reply paired with its request: the
\* correlation id of the reply header and of the decoded response is the
\* one the Call put into its request header, and the reply's protocol tag
\* is the client's.
C19_ReplyIsPaired ==
    Returned /\ resp.present /\ err = NoError =>
        LET h == HeaderInit(Take(AllBody, HeaderWidth))
        IN  /\ h.Id = req.r.Protocol.Id
            /\ Decoded.resp.Id = call.id
            /\ h.MagicNumber = client.Opt.MagicNumber

\* The other caller.
Other(p) == CHOOSE q \in Callers : q # p

\* C11: the timeout write goes to a handle shared by every Call that
\* selects it. What a Call's dispatch runs with is the handle's value at
\* that moment: its own timeout, or the timeout of a concurrent Call on
\* the same handle that wrote after it; Calls on different handles never
\* disturb each other. The hazard itself, a dispatch under the other
\* Call's timeout, is the state C11_Witness describes, and it is reachable.
C11_SharedHandleTimeout ==
    \A p \in Callers :
        cpc[p] \in {"dispatched", "done"} =>
            \/ cseen[p] = cclient[p].Opt.Timeout
            \/ /\ cpc[Other(p)] \in {"written", "dispatched", "done"}
               /\ handleOf(cclient[Other(p)]) = handleOf(cclient[p])
               /\ cseen[p] = cclient[Other(p)].Opt.Timeout

\* Two Calls on the same handle with different timeouts are in flight, and
\* one has dispatched under the timeout the other one wrote.
C11_Witness ==
    \E p \in Callers :
        /\ cpc[p] = "dispatched"
        /\ cpc[Other(p)] \in {"written", "dispatched"}
        /\ handleOf(cclient[Other(p)]) = handleOf(cclient[p])
        /\ cclient[Other(p)].Opt.Timeout # cclient[p].Opt.Timeout
        /\ cseen[p] = cclient[Other(p)].Opt.Timeout
        /\ cseen[p] # cclient[p].Opt.Timeout

\* C15: SyncAllHostList publishes idempotently: a sync that completes over
\* a registry no container of which started or stopped since the previous
\* completed sync asks redis for no write.
C15_UnchangedSyncWritesNothing ==
    ~synclog.err /\ synclog.unchanged =>
        synclog.writes = <<>>

\* The (pool, service) pairs the containers at hand fall into.
SyncKeys ==
    {<<poolOf(c.constraints), serviceOf(c)>> : c \in {d \in Containers : d.labels}}

\* C20: the recorded digest never runs ahead of the store: whenever
\* hostCheckSum holds a digest for a (pool, service) pair, redis has an
\* entry for the pair, and unless it expired the list it holds has that
\* digest.
C20_DigestNotAheadOfStore ==
    \A k \in SyncKeys :
        mapHas(hostCheckSum, checkSumKey(k[1], k[2])) =>
            \E e \in store :
                /\ e.key = redisKey(k[1], k[2])
                /\ ~e.expired =>
                    /\ redisClient = "open"
                    /\ checkSum(GetHostListFromRedis(store, redisClient, k[1], k[2]).host)
                           = mapGet(hostCheckSum, checkSumKey(k[1], k[2]))

====
